---- MODULE Spec2Model ----
(***************************************************************************)
(* Game state engine of the tic-tac-toe front end (src/bjkl_frontend/src/  *)
(* App.js): the React state of TicTacToeGame (history, stepNumber,         *)
(* xIsNext), the values every render derives from it (winnerObj, draw),    *)
(* and the three event handlers handleClick, resetGame and jumpTo.  Each   *)
(* event is one atomic action: the handler's batched state updates, the    *)
(* render that follows, the [stepNumber] effect and its re-render.         *)
(***************************************************************************)
EXTENDS Integers, Sequences, FiniteSets, TLC

VARIABLES history, stepNumber, xIsNext, winnerObj, draw, fault, lastOp

vars == <<history, stepNumber, xIsNext, winnerObj, draw, fault, lastOp>>

(* ---------------------------- bounds ----------------------------------- *)

\* A click on an empty cell is explored only when fewer than MaxEmptyRank
\* empty cells of the shown board have a smaller index.
MaxEmptyRank == 3

\* A game is explored while at most MaxDeviations of its moves went to a
\* cell other than the lowest empty one.
MaxDeviations == 2

\* jumpTo is also called, in SpecAnyIndex, with indices up to IndexSlack
\* below 0 and above the last history index.
IndexSlack == 1

(* ---------------------------- values ----------------------------------- *)

Null == "null"

Marks == {"X", "O"}

CellValues == {Null} \cup Marks

Cells == 0 .. 8

AllBoards == [Cells -> CellValues]

\* Array(9).fill(null)
EmptyBoard == [i \in Cells |-> Null]

\* JavaScript truthiness of a cell value: null is falsy, "X" and "O" truthy.
Truthy(v) == v # Null

\* The value null of winnerObj, as a record of the same shape.
NullObj == [winner |-> Null, line |-> <<>>]

(* ----------------------- calculateWinner ------------------------------- *)

\* Variant: the diagonals enumerated before the rows and columns.
lines_diagsFirst ==
  << <<0, 4, 8>>, <<2, 4, 6>>,
     <<0, 1, 2>>, <<3, 4, 5>>, <<6, 7, 8>>,
     <<0, 3, 6>>, <<1, 4, 7>>, <<2, 5, 8>> >>

\* Variant: a typing slip in the middle column, [1,4,6] for [1,4,7].
lines_middleColumnSlip ==
  << <<0, 1, 2>>, <<3, 4, 5>>, <<6, 7, 8>>,
     <<0, 3, 6>>, <<1, 4, 6>>, <<2, 5, 8>>,
     <<0, 4, 8>>, <<2, 4, 6>> >>

lines ==
  << <<0, 1, 2>>, <<3, 4, 5>>, <<6, 7, 8>>,
     <<0, 3, 6>>, <<1, 4, 7>>, <<2, 5, 8>>,
     <<0, 4, 8>>, <<2, 4, 6>> >>

\* Variant: the third cell of the line is not compared.
LineMatch_twoCells(squares, line) ==
  LET a == line[1]
      b == line[2]
  IN  Truthy(squares[a]) /\ squares[a] = squares[b]

\* The test of one line inside the loop.
LineMatch(squares, line) ==
  LET a == line[1]
      b == line[2]
      c == line[3]
  IN  Truthy(squares[a]) /\ squares[a] = squares[b] /\ squares[a] = squares[c]

RECURSIVE ScanLines(_, _)
\* The for-loop over lines, from position k on: return at the first match.
ScanLines(squares, k) ==
  IF k > Len(lines) THEN NullObj
  ELSE IF LineMatch(squares, lines[k])
       THEN [winner |-> squares[lines[k][1]], line |-> lines[k]]
       ELSE ScanLines(squares, k + 1)

calculateWinner(squares) == ScanLines(squares, 1)

(* --------------------------- component state --------------------------- *)

\* history[n] of the code (0-based) in the 1-based sequence h.
At(h, n) == h[n + 1]

\* The state of the component as one record.
Cur ==
  [history |-> history, stepNumber |-> stepNumber, xIsNext |-> xIsNext,
   winnerObj |-> winnerObj, draw |-> draw, fault |-> fault]

\* The body of TicTacToeGame up to the handlers: currentSquares, winnerObj,
\* draw.  history[stepNumber] is undefined for an index outside the array,
\* and calculateWinner(undefined) throws a TypeError: the render fails.
render(s) ==
  IF s.stepNumber \in 0 .. Len(s.history) - 1
  THEN LET currentSquares == At(s.history, s.stepNumber)
           w == calculateWinner(currentSquares)
       IN  [s EXCEPT !.winnerObj = w,
                     !.draw = (w = NullObj) /\
                              (\A i \in Cells : currentSquares[i] # Null)]
  ELSE [s EXCEPT !.winnerObj = NullObj, !.draw = FALSE, !.fault = TRUE]

\* useEffect(..., [stepNumber]): runs after a committed render in which
\* stepNumber differs from the previous render's.
useEffect(prev, s) ==
  IF s.stepNumber # prev.stepNumber /\ s.stepNumber = 0
  THEN [s EXCEPT !.xIsNext = TRUE]
  ELSE s

\* The render after a handler's updates, the effect of a committed render,
\* and the re-render when the effect changed the state.  A failed render
\* commits nothing, so its effect does not run.
Commit(prev, s) ==
  LET r == render(s)
      e == useEffect(prev, r)
  IN  IF r.fault \/ e = r THEN r ELSE render(e)

(* ------------------------------ handlers ------------------------------- *)

\* Variant: the early return does not test winnerObj.
handleClick_noWinnerCheck(s, i) ==
  LET historyUpToStep == SubSeq(s.history, 1, s.stepNumber + 1)
      current == historyUpToStep[Len(historyUpToStep)]
  IN  IF Truthy(current[i])
      THEN s
      ELSE LET squares == [current EXCEPT ![i] = IF s.xIsNext THEN "X" ELSE "O"]
           IN  [s EXCEPT !.history = Append(historyUpToStep, squares),
                         !.stepNumber = Len(historyUpToStep),
                         !.xIsNext = ~s.xIsNext]

\* Variant: the early return does not test current[i].
handleClick_noOccupiedCheck(s, i) ==
  LET historyUpToStep == SubSeq(s.history, 1, s.stepNumber + 1)
      current == historyUpToStep[Len(historyUpToStep)]
  IN  IF s.winnerObj # NullObj
      THEN s
      ELSE LET squares == [current EXCEPT ![i] = IF s.xIsNext THEN "X" ELSE "O"]
           IN  [s EXCEPT !.history = Append(historyUpToStep, squares),
                         !.stepNumber = Len(historyUpToStep),
                         !.xIsNext = ~s.xIsNext]

\* Variant: the new board is appended to the whole history, not to the
\* slice that ends at stepNumber.
handleClick_noSlice(s, i) ==
  LET current == At(s.history, s.stepNumber)
  IN  IF s.winnerObj # NullObj \/ Truthy(current[i])
      THEN s
      ELSE LET squares == [current EXCEPT ![i] = IF s.xIsNext THEN "X" ELSE "O"]
           IN  [s EXCEPT !.history = Append(s.history, squares),
                         !.stepNumber = Len(s.history),
                         !.xIsNext = ~s.xIsNext]

\* Variant: O is placed when xIsNext holds, X otherwise.
handleClick_oFirst(s, i) ==
  LET historyUpToStep == SubSeq(s.history, 1, s.stepNumber + 1)
      current == historyUpToStep[Len(historyUpToStep)]
  IN  IF s.winnerObj # NullObj \/ Truthy(current[i])
      THEN s
      ELSE LET squares == [current EXCEPT ![i] = IF s.xIsNext THEN "O" ELSE "X"]
           IN  [s EXCEPT !.history = Append(historyUpToStep, squares),
                         !.stepNumber = Len(historyUpToStep),
                         !.xIsNext = ~s.xIsNext]

\* Variant: current is not copied (no slice()), so the write to squares[i]
\* also changes the entry already in the history.
handleClick_noCopy(s, i) ==
  LET historyUpToStep == SubSeq(s.history, 1, s.stepNumber + 1)
      current == historyUpToStep[Len(historyUpToStep)]
  IN  IF s.winnerObj # NullObj \/ Truthy(current[i])
      THEN s
      ELSE LET squares == [current EXCEPT ![i] = IF s.xIsNext THEN "X" ELSE "O"]
               aliased == [historyUpToStep EXCEPT
                             ![Len(historyUpToStep)] = squares]
           IN  [s EXCEPT !.history = Append(aliased, squares),
                         !.stepNumber = Len(historyUpToStep),
                         !.xIsNext = ~s.xIsNext]

\* Variant: stepNumber is set one past the new last index.
handleClick_stepOffByOne(s, i) ==
  LET historyUpToStep == SubSeq(s.history, 1, s.stepNumber + 1)
      current == historyUpToStep[Len(historyUpToStep)]
  IN  IF s.winnerObj # NullObj \/ Truthy(current[i])
      THEN s
      ELSE LET squares == [current EXCEPT ![i] = IF s.xIsNext THEN "X" ELSE "O"]
           IN  [s EXCEPT !.history = Append(historyUpToStep, squares),
                         !.stepNumber = Len(historyUpToStep) + 1,
                         !.xIsNext = ~s.xIsNext]

\* Variant: the turn flag is not flipped after the move.
handleClick_keepTurn(s, i) ==
  LET historyUpToStep == SubSeq(s.history, 1, s.stepNumber + 1)
      current == historyUpToStep[Len(historyUpToStep)]
  IN  IF s.winnerObj # NullObj \/ Truthy(current[i])
      THEN s
      ELSE LET squares == [current EXCEPT ![i] = IF s.xIsNext THEN "X" ELSE "O"]
           IN  [s EXCEPT !.history = Append(historyUpToStep, squares),
                         !.stepNumber = Len(historyUpToStep)]

\* Variant: setStepNumber is missing, so the shown index never advances.
handleClick_noStep(s, i) ==
  LET historyUpToStep == SubSeq(s.history, 1, s.stepNumber + 1)
      current == historyUpToStep[Len(historyUpToStep)]
  IN  IF s.winnerObj # NullObj \/ Truthy(current[i])
      THEN s
      ELSE LET squares == [current EXCEPT ![i] = IF s.xIsNext THEN "X" ELSE "O"]
           IN  [s EXCEPT !.history = Append(historyUpToStep, squares),
                         !.xIsNext = ~s.xIsNext]

handleClick(s, i) ==
  LET historyUpToStep == SubSeq(s.history, 1, s.stepNumber + 1)
      current == historyUpToStep[Len(historyUpToStep)]
  IN  IF s.winnerObj # NullObj \/ Truthy(current[i])
      THEN s
      ELSE LET squares == [current EXCEPT ![i] = IF s.xIsNext THEN "X" ELSE "O"]
           IN  [s EXCEPT !.history = Append(historyUpToStep, squares),
                         !.stepNumber = Len(historyUpToStep),
                         !.xIsNext = ~s.xIsNext]

\* Variant: stepNumber is not set back to 0.
resetGame_keepStep(s) ==
  [s EXCEPT !.history = <<EmptyBoard>>, !.xIsNext = TRUE]

\* Variant: the turn flag is flipped (as in handleClick), not set to true.
resetGame_flipTurn(s) ==
  [s EXCEPT !.history = <<EmptyBoard>>, !.stepNumber = 0,
            !.xIsNext = ~s.xIsNext]

resetGame(s) ==
  [s EXCEPT !.history = <<EmptyBoard>>, !.stepNumber = 0, !.xIsNext = TRUE]

\* Variant: the turn flag is not recomputed from the index.
jumpTo_keepTurn(s, move) ==
  [s EXCEPT !.stepNumber = move]

\* Variant: the history is cut at the index jumped to.
jumpTo_truncate(s, move) ==
  [s EXCEPT !.history = SubSeq(s.history, 1, move + 1),
            !.stepNumber = move, !.xIsNext = (move % 2 = 0)]

\* Variant: the parity test is inverted (move % 2 === 1).
jumpTo_wrongParity(s, move) ==
  [s EXCEPT !.stepNumber = move, !.xIsNext = (move % 2 = 1)]

jumpTo(s, move) ==
  [s EXCEPT !.stepNumber = move, !.xIsNext = (move % 2 = 0)]

\* One event, start to finish.
ClickEvent(s, i) == Commit(s, handleClick(s, i))

ResetEvent(s) == Commit(s, resetGame(s))

JumpEvent(s, move) == Commit(s, jumpTo(s, move))

(* ----------------------------- GameStatus ------------------------------ *)

GameStatus(winner, isDraw, xNext) ==
  IF Truthy(winner) THEN [kind |-> "winner", player |-> winner]
  ELSE IF isDraw THEN [kind |-> "draw", player |-> Null]
  ELSE [kind |-> "next", player |-> IF xNext THEN "X" ELSE "O"]

\* The status the component shows for state s.
StatusOf(s) == GameStatus(s.winnerObj.winner, s.draw, s.xIsNext)

(* ------------------------------ actions -------------------------------- *)

\* The new values of the state variables, from a state record.
Set(s) ==
  /\ history' = s.history
  /\ stepNumber' = s.stepNumber
  /\ xIsNext' = s.xIsNext
  /\ winnerObj' = s.winnerObj
  /\ draw' = s.draw
  /\ fault' = s.fault

\* useState initial values and the first render.
Mounted ==
  render([history |-> <<EmptyBoard>>, stepNumber |-> 0, xIsNext |-> TRUE,
          winnerObj |-> NullObj, draw |-> FALSE, fault |-> FALSE])

Init ==
  /\ history = Mounted.history
  /\ stepNumber = Mounted.stepNumber
  /\ xIsNext = Mounted.xIsNext
  /\ winnerObj = Mounted.winnerObj
  /\ draw = Mounted.draw
  /\ fault = Mounted.fault
  /\ lastOp = [op |-> "mount", ok |-> TRUE, cut |-> 0]

\* Number of empty cells of squares with an index below i.
EmptyRank(squares, i) == Cardinality({j \in 0 .. i - 1 : squares[j] = Null})

\* The move from board a to board b did not go to the lowest empty cell of
\* a: that cell is still empty in b.
Deviates(a, b) ==
  \E j \in Cells : /\ a[j] = Null
                   /\ b[j] = Null
                   /\ \A m \in 0 .. j - 1 : a[m] # Null

\* Number of moves among the first n of h that did not go to the lowest
\* empty cell.
Deviations(h, n) ==
  Cardinality({k \in 1 .. n : Deviates(At(h, k - 1), At(h, k))})


\* The squares the Board offers for clicking in state s (all nine buttons),
\* with the exploration bounds on the empty ones.
ClickableCells(s) ==
  LET sq == At(s.history, s.stepNumber)
      d == Deviations(s.history, s.stepNumber)
  IN  {i \in Cells :
         sq[i] = Null =>
           /\ EmptyRank(sq, i) < MaxEmptyRank
           /\ d + (IF EmptyRank(sq, i) > 0 THEN 1 ELSE 0) <= MaxDeviations}

\* Square onClick -> onSquareClick(i) -> handleClick(i)
HandleClick ==
  /\ ~fault
  /\ \E i \in ClickableCells(Cur) :
       /\ LET t == ClickEvent(Cur, i)
          IN  /\ Set(t)
              /\ lastOp' = [op |-> "handleClick", ok |-> (t # Cur),
                            cut |-> IF t # Cur
                                    THEN Len(history) - (stepNumber + 1)
                                    ELSE 0]

\* Reset button onClick
ResetGame ==
  /\ ~fault
  /\ Set(ResetEvent(Cur))
  /\ lastOp' = [op |-> "resetGame", ok |-> TRUE, cut |-> Len(history) - 1]

\* MoveHistory: one button per history entry, onClick -> jumpTo(move)
JumpTo ==
  /\ ~fault
  /\ \E move \in 0 .. Len(history) - 1 :
       /\ Set(JumpEvent(Cur, move))
       /\ lastOp' = [op |-> "jumpTo", ok |-> TRUE, cut |-> 0]

Next == HandleClick \/ ResetGame \/ JumpTo

Spec == Init /\ [][Next]_vars

(* ------------- jumpTo called with an arbitrary index -------------------- *)

\* The indices the history list offers.
Offered(s) == 0 .. Len(s.history) - 1

\* jumpTo(move) issued by a caller that does not go through the list.
JumpToAny ==
  /\ ~fault
  /\ \E move \in (0 - IndexSlack) .. (Len(history) - 1 + IndexSlack) :
       /\ Set(JumpEvent(Cur, move))
       /\ lastOp' = [op |-> "jumpTo", ok |-> (move \in Offered(Cur)),
                     cut |-> 0]

NextAnyIndex == HandleClick \/ ResetGame \/ JumpToAny

SpecAnyIndex == Init /\ [][NextAnyIndex]_vars

(* ------------- calculateWinner on an arbitrary board -------------------- *)

\* The component holding one arbitrary board, before its first render.
InitEval ==
  /\ history \in {<<b>> : b \in AllBoards}
  /\ stepNumber = 0
  /\ xIsNext = TRUE
  /\ winnerObj = NullObj
  /\ draw = FALSE
  /\ fault = FALSE
  /\ lastOp = [op |-> "useState", ok |-> TRUE, cut |-> 0]

\* The render of that board: winnerObj and draw are computed.
RenderBoard ==
  /\ lastOp.op = "useState"
  /\ Set(render(Cur))
  /\ lastOp' = [op |-> "render", ok |-> TRUE, cut |-> 0]

NextEval == RenderBoard

SpecEval == InitEval /\ [][NextEval]_vars

(* ------------- a game played on without navigation ---------------------- *)

\* A click issued once the players only play on: handleClick as before,
\* after which no Reset or history button is used any more.
PlayClick ==
  /\ ~fault
  /\ \E i \in ClickableCells(Cur) :
       /\ LET t == ClickEvent(Cur, i)
          IN  /\ Set(t)
              /\ lastOp' = [op |-> "playClick", ok |-> (t # Cur), cut |-> 0]

\* A further click of that phase that the handler accepted, on any square:
\* the event of ClickEvent written out step by step (handler, render,
\* effect, re-render), each step bound to its value.
PlayAccepted ==
  /\ lastOp.op = "playClick"
  /\ ~fault
  /\ lastOp' = [op |-> "playClick", ok |-> TRUE, cut |-> 0]
  /\ \E s \in {Cur} :
       \E i \in Cells :
         \E h \in {handleClick(s, i)} :
           /\ h # s
           /\ \E r \in {render(h)} :
                \E e \in {useEffect(s, r)} :
                  \E t \in {IF r.fault \/ e = r THEN r ELSE render(e)} :
                    Set(t)

\* Any events first, then clicks only.
NextPlay == (lastOp.op # "playClick" /\ Next) \/ PlayClick

\* In that phase moves keep being issued while one can be accepted.
SpecPlay == Init /\ [][NextPlay]_vars /\ WF_vars(PlayAccepted)

(* ======================= reference definitions ========================= *)

\* The eight winning lines as sets of cells, written out independently.
RefLines ==
  { {0, 1, 2}, {3, 4, 5}, {6, 7, 8},
    {0, 3, 6}, {1, 4, 7}, {2, 5, 8},
    {0, 4, 8}, {2, 4, 6} }

\* Player p owns a whole line of board b.
RefWins(b, p) == \E L \in RefLines : \A c \in L : b[c] = p

RefFull(b) == \A c \in Cells : b[c] # Null

\* The outcome class of board b by the rule of the specification.
RefOutcome(b) ==
  IF \E p \in Marks : RefWins(b, p) THEN "Win"
  ELSE IF RefFull(b) THEN "Draw"
  ELSE "Undecided"

\* The board shown: the entry at CurrentIndex.
Shown == At(history, stepNumber)

\* The part of a state record the claims call the state.
Core(s) == <<s.history, s.stepNumber, s.xIsNext>>

\* The mark the parity of index k assigns.
ParityMark(k) == IF k % 2 = 0 THEN "X" ELSE "O"

(* ============================== claims ================================= *)

\* C1: a click on an occupied cell of the shown board, or on any cell when
\* the shown board is decided (Win or Draw), changes nothing: History,
\* CurrentIndex and the turn flag after the event equal those before it.
C1_RejectionNoOp ==
  \A i \in Cells :
    (Shown[i] # Null \/ RefOutcome(Shown) # "Undecided")
      => /\ Core(ClickEvent(Cur, i)) = Core(Cur)
         /\ ~ClickEvent(Cur, i).fault

\* C1 witness: a click has just been rejected on a won board that still has
\* an empty cell.
C1_Witness ==
  /\ lastOp.op = "handleClick"
  /\ ~lastOp.ok
  /\ RefOutcome(Shown) = "Win"
  /\ \E i \in Cells : Shown[i] = Null

\* C2: with CurrentIndex = k, a click on cell c is accepted exactly when
\* History[k][c] is Empty and History[k] is Undecided; after it History is
\* the old entries 0..k followed by one board equal to History[k] except for
\* a mark in cell c, CurrentIndex = k+1 and len(History) = CurrentIndex + 1.
C2_Acceptance ==
  \A c \in Cells :
    LET k == stepNumber
        t == ClickEvent(Cur, c)
        acceptable == Shown[c] = Null /\ RefOutcome(Shown) = "Undecided"
    IN  /\ acceptable <=> (Core(t) # Core(Cur))
        /\ acceptable =>
             /\ ~t.fault
             /\ Len(t.history) = k + 2
             /\ SubSeq(t.history, 1, k + 1) = SubSeq(history, 1, k + 1)
             /\ At(t.history, k + 1)[c] \in Marks
             /\ \A j \in Cells \ {c} : At(t.history, k + 1)[j] = Shown[j]
             /\ t.stepNumber = k + 1
             /\ Len(t.history) = t.stepNumber + 1

\* C2 witness: a click has just been accepted from an earlier entry of a
\* ten-entry history, whose last entry (a full board) was decided.
C2_Witness ==
  /\ lastOp.op = "handleClick"
  /\ lastOp.ok
  /\ lastOp.cut >= 1
  /\ Len(history) + lastOp.cut = 10
  /\ Len(history) = stepNumber + 1

\* C3: every accepted click places X when CurrentIndex before it is even
\* and O when it is odd.
C3_TurnAlternation ==
  \A c \in Cells :
    LET t == ClickEvent(Cur, c)
    IN  Core(t) # Core(Cur)
          => At(t.history, t.stepNumber)[c] = ParityMark(stepNumber)

\* C3 witness: after a jump back, an accepted click has just placed an O
\* from an odd index.
C3_Witness ==
  /\ lastOp.op = "handleClick"
  /\ lastOp.ok
  /\ lastOp.cut = 1
  /\ stepNumber % 2 = 0
  /\ \E c \in Cells : /\ At(history, stepNumber - 1)[c] = Null
                      /\ Shown[c] = "O"

\* C4: jumpTo(j) with j below the last index followed by an accepted click
\* leaves len(History) = j+2: entries 0..j are the old ones, entry j+1 is
\* the new board, and the entries recorded after j are gone; from
\* CurrentIndex = 3, jumpTo(1) and a move give a History of length 3.
C4_Branching ==
  \A j \in 0 .. Len(history) - 2 :
    LET t == JumpEvent(Cur, j)
    IN  \A c \in Cells :
          LET u == ClickEvent(t, c)
          IN  u.history # t.history
                => /\ Len(u.history) = j + 2
                   /\ SubSeq(u.history, 1, j + 1) = SubSeq(history, 1, j + 1)
                   /\ At(u.history, j + 1) =
                        [At(history, j) EXCEPT ![c] = ParityMark(j)]
                   /\ u.stepNumber = j + 1
                   /\ (Len(history) = 4 /\ j = 1 => Len(u.history) = 3)

\* C4 witness: a move has just been accepted at index 1 of a four-entry
\* history, discarding the recorded moves 2 and 3.
C4_Witness ==
  /\ lastOp.op = "handleClick"
  /\ lastOp.ok
  /\ lastOp.cut = 2
  /\ Len(history) = 3
  /\ stepNumber = 2

\* C5: jumpTo(index) with 0 <= index <= len(History)-1 sets CurrentIndex to
\* index and leaves History unchanged.
C5_JumpFrame ==
  \A move \in 0 .. Len(history) - 1 :
    LET t == JumpEvent(Cur, move)
    IN  /\ t.stepNumber = move
        /\ t.history = history
        /\ ~t.fault

\* C5 witness: a jump has just moved CurrentIndex below the last index of a
\* history that still holds the later entries.
C5_Witness ==
  /\ lastOp.op = "jumpTo"
  /\ lastOp.ok
  /\ stepNumber + 2 < Len(history)

\* C6 (as claimed): a jumpTo with an index outside 0..len(History)-1 raises
\* no fault and leaves History, CurrentIndex and the turn flag unchanged.
C6_OutOfRangeIgnored ==
  [][(lastOp'.op = "jumpTo" /\ ~lastOp'.ok)
       => (~fault' /\ UNCHANGED <<history, stepNumber, xIsNext>>)]_vars

\* C7: reset from any reachable state gives len(History) = 1,
\* CurrentIndex = 0, nine Empty cells, outcome Undecided and the status
\* "next player: X".
C7_Reset ==
  LET t == ResetEvent(Cur)
  IN  /\ ~t.fault
      /\ Len(t.history) = 1
      /\ t.stepNumber = 0
      /\ \A c \in Cells : At(t.history, 0)[c] = Null
      /\ t.winnerObj = NullObj
      /\ ~t.draw
      /\ RefOutcome(At(t.history, t.stepNumber)) = "Undecided"
      /\ StatusOf(t) = [kind |-> "next", player |-> "X"]

\* C7 witness: a reset has just discarded a complete ten-entry game.
C7_Witness ==
  /\ lastOp.op = "resetGame"
  /\ lastOp.cut = 9
  /\ Len(history) = 1

\* C8: two resets in a row leave the same History, CurrentIndex and turn
\* flag as one reset.
C8_ResetIdempotent ==
  Core(ResetEvent(ResetEvent(Cur))) = Core(ResetEvent(Cur))

\* C8 witness: a reset has just been issued on a game that was already in
\* the fresh state.
C8_Witness ==
  /\ lastOp.op = "resetGame"
  /\ lastOp.cut = 0
  /\ stepNumber = 0
  /\ xIsNext

\* C9: for every board over {Empty, X, O}^9 the evaluator reports a winner
\* exactly when some line holds three equal marks, the winner and line it
\* reports are such a line's, draw is reported exactly when no line wins
\* and no cell is Empty, and never both a winner and a draw.
C9_OutcomeRule ==
  lastOp.op = "render" =>
    LET b == At(history, 0)
        won == winnerObj # NullObj
    IN  /\ won <=> (RefOutcome(b) = "Win")
        /\ won => /\ winnerObj.winner \in Marks
                  /\ Len(winnerObj.line) = 3
                  /\ \A n \in 1 .. 3 : b[winnerObj.line[n]] = winnerObj.winner
                  /\ {winnerObj.line[n] : n \in 1 .. 3} \in RefLines
        /\ draw <=> (RefOutcome(b) = "Draw")
        /\ ~(won /\ draw)
        /\ (~won /\ ~draw) <=> (RefOutcome(b) = "Undecided")

\* C9 witness: a full board without a line has been evaluated as a draw.
C9_Witness ==
  /\ lastOp.op = "render"
  /\ draw
  /\ RefOutcome(At(history, 0)) = "Draw"

\* The enumeration order the specification fixes: rows, columns, diagonals.
RefOrder ==
  << <<0, 1, 2>>, <<3, 4, 5>>, <<6, 7, 8>>,
     <<0, 3, 6>>, <<1, 4, 7>>, <<2, 5, 8>>,
     <<0, 4, 8>>, <<2, 4, 6>> >>

\* The positions of RefOrder whose line is satisfied on board b.
RefSatisfied(b) ==
  {n \in 1 .. Len(RefOrder) :
     /\ b[RefOrder[n][1]] \in Marks
     /\ b[RefOrder[n][2]] = b[RefOrder[n][1]]
     /\ b[RefOrder[n][3]] = b[RefOrder[n][1]]}

\* C10: on a board with one or more satisfied lines the evaluator returns
\* the line that comes first in the order rows, columns, diagonals, and the
\* mark on it.
C10_FirstMatch ==
  lastOp.op = "render" =>
    LET b == At(history, 0)
        sat == RefSatisfied(b)
    IN  sat # {} =>
          LET first == CHOOSE n \in sat : \A m \in sat : n <= m
          IN  /\ winnerObj.line = RefOrder[first]
              /\ winnerObj.winner = b[RefOrder[first][1]]

\* C10 witness: a board on which the bottom row, the left column and a
\* diagonal are all satisfied has been evaluated, and the row was reported.
C10_Witness ==
  /\ lastOp.op = "render"
  /\ {3, 4, 8} \subseteq RefSatisfied(At(history, 0))
  /\ winnerObj.line = <<6, 7, 8>>

\* C11: the turn flag is true exactly when CurrentIndex is even, and the
\* status shown is the winner when the shown board has a line, draw when it
\* is full without one, and otherwise "next player" with the mark of that
\* parity.
C11_TurnIsParity ==
  /\ xIsNext <=> (stepNumber % 2 = 0)
  /\ StatusOf(Cur) =
       IF RefOutcome(Shown) = "Win"
       THEN [kind |-> "winner",
             player |-> CHOOSE p \in Marks : RefWins(Shown, p)]
       ELSE IF RefOutcome(Shown) = "Draw"
       THEN [kind |-> "draw", player |-> Null]
       ELSE [kind |-> "next", player |-> ParityMark(stepNumber)]

\* C11 witness: a jump back has just landed on an odd index of an undecided
\* board, and the status names O as the next player.
C11_Witness ==
  /\ lastOp.op = "jumpTo"
  /\ stepNumber % 2 = 1
  /\ stepNumber + 1 < Len(history)
  /\ StatusOf(Cur) = [kind |-> "next", player |-> "O"]

\* The cells clicked by the accepted moves recorded in h, in order.
MoveCells(h) ==
  [k \in 1 .. Len(h) - 1 |-> CHOOSE c \in Cells : h[k][c] # h[k + 1][c]]

\* The game played so far is the first n clicks of script, with no entry
\* beyond the shown one.
Playing(script, n) ==
  /\ stepNumber = n
  /\ Len(history) = n + 1
  /\ MoveCells(history) = SubSeq(script, 1, n)

WinScript == <<0, 3, 1, 4, 2>>

\* C12: from a fresh game the clicks 0,3,1,4,2 are all accepted; the outcome
\* is Undecided after each of the first four, and after the fifth it is a
\* win of X on line [0,1,2] with CurrentIndex = 5 and the winner status X.
C12_WinScenario ==
  \A n \in 0 .. Len(WinScript) :
    Playing(WinScript, n) =>
      /\ n < Len(WinScript) =>
           /\ RefOutcome(Shown) = "Undecided"
           /\ winnerObj = NullObj
           /\ ~draw
           /\ LET t == ClickEvent(Cur, WinScript[n + 1])
              IN  /\ t.stepNumber = n + 1
                  /\ Len(t.history) = n + 2
                  /\ MoveCells(t.history) = SubSeq(WinScript, 1, n + 1)
      /\ n = Len(WinScript) =>
           /\ winnerObj = [winner |-> "X", line |-> <<0, 1, 2>>]
           /\ stepNumber = 5
           /\ StatusOf(Cur) = [kind |-> "winner", player |-> "X"]

\* C12 witness: the fifth click of the scenario has just been accepted.
C12_Witness ==
  /\ Playing(WinScript, 5)
  /\ lastOp.op = "handleClick"
  /\ lastOp.ok
  /\ lastOp.cut = 0

DrawScript == <<0, 1, 2, 4, 3, 6, 5, 7, 8>>

\* C13 (as claimed): once the clicks 0,1,2,4,3,6,5,7 have been played, the
\* click on cell 8 leaves the outcome Draw with the draw status.
C13_DrawScenario ==
  Playing(DrawScript, 8) =>
    LET t == ClickEvent(Cur, DrawScript[9])
    IN  /\ t.draw
        /\ StatusOf(t) = [kind |-> "draw", player |-> Null]

\* C13 (amended): the clicks 0,1,2,4,3,6,5,7 are all accepted; the eighth
\* gives O the line [1,4,7], so the outcome is a win of O with the winner
\* status O, the ninth click on cell 8 is rejected, and the outcome is not
\* Draw.
C13_ScenarioIsWinForO ==
  \A n \in 0 .. 8 :
    Playing(DrawScript, n) =>
      LET t == ClickEvent(Cur, DrawScript[n + 1])
      IN  /\ n < 8 =>
               /\ RefOutcome(Shown) = "Undecided"
               /\ t.stepNumber = n + 1
               /\ MoveCells(t.history) = SubSeq(DrawScript, 1, n + 1)
          /\ n = 8 =>
               /\ winnerObj = [winner |-> "O", line |-> <<1, 4, 7>>]
               /\ StatusOf(Cur) = [kind |-> "winner", player |-> "O"]
               /\ Core(t) = Core(Cur)
               /\ ~t.draw
               /\ StatusOf(t) = [kind |-> "winner", player |-> "O"]

\* C13 witness: after the eight accepted clicks of the scenario a further
\* click has just been rejected.
C13_Witness ==
  /\ Playing(DrawScript, 8)
  /\ lastOp.op = "handleClick"
  /\ ~lastOp.ok

\* C14 (as claimed): no board of the history has more than one of the eight
\* lines satisfied.
C14_NoMultiLine ==
  \A n \in 1 .. Len(history) : Cardinality(RefSatisfied(history[n])) <= 1

\* C14 (amended): a board of the history has at most two satisfied lines;
\* when it has two they belong to the same player and cross in the cell of
\* the move that produced the board.
C14_MultiLineOnlyByOneMove ==
  \A n \in 1 .. Len(history) :
    LET b == history[n]
        sat == RefSatisfied(b)
    IN  /\ Cardinality(sat) <= 2
        /\ Cardinality(sat) = 2 =>
             /\ n >= 2
             /\ \E p \in Marks : \A m \in sat : b[RefOrder[m][1]] = p
             /\ \E c \in Cells :
                  /\ history[n - 1][c] = Null
                  /\ b[c] # Null
                  /\ \A m \in sat : c \in {RefOrder[m][q] : q \in 1 .. 3}

\* C14 witness: an accepted move has just completed two lines at once.
C14_Witness ==
  /\ lastOp.op = "handleClick"
  /\ lastOp.ok
  /\ Cardinality(RefSatisfied(Shown)) = 2

\* Number of cells of board b holding value v.
CountOf(b, v) == Cardinality({c \in Cells : b[c] = v})

\* C15: History is non-empty, its first entry is the all-Empty board, every
\* entry is a board of nine cells over {Empty, X, O}, and each entry differs
\* from the one before it in exactly one cell, which went from Empty to a
\* player mark.
C15_HistoryShape ==
  /\ Len(history) >= 1
  /\ \A c \in Cells : history[1][c] = Null
  /\ \A n \in 1 .. Len(history) :
       /\ DOMAIN history[n] = Cells
       /\ \A c \in Cells : history[n][c] \in CellValues
  /\ \A n \in 2 .. Len(history) :
       LET changed == {c \in Cells : history[n][c] # history[n - 1][c]}
       IN  /\ Cardinality(changed) = 1
           /\ \A c \in changed : /\ history[n - 1][c] = Null
                                 /\ history[n][c] \in Marks

\* C15 witness: a complete ten-entry history whose last board is a win is
\* shown at its last index.
C15_Witness ==
  /\ Len(history) = 10
  /\ stepNumber = 9
  /\ RefOutcome(Shown) = "Win"

\* C16: CurrentIndex is an integer with 0 <= CurrentIndex <= len(History)-1
\* and the render of the board at that index has not failed.
C16_IndexInRange ==
  /\ stepNumber \in Int
  /\ 0 <= stepNumber
  /\ stepNumber <= Len(history) - 1
  /\ ~fault

\* C16 witness: a jump has just gone to the last index of a ten-entry
\* history.
C16_Witness ==
  /\ lastOp.op = "jumpTo"
  /\ Len(history) = 10
  /\ stepNumber = Len(history) - 1

\* C17: every History entry before the last is Undecided: it has no winner
\* and has an Empty cell.
C17_OnlyLastDecided ==
  \A n \in 1 .. Len(history) - 1 :
    /\ RefOutcome(history[n]) = "Undecided"
    /\ calculateWinner(history[n]) = NullObj
    /\ \E c \in Cells : history[n][c] = Null

\* C17 witness: after a jump back and a new move that cut recorded entries,
\* the new last entry is a win.
C17_Witness ==
  /\ lastOp.op = "handleClick"
  /\ lastOp.ok
  /\ lastOp.cut >= 1
  /\ RefOutcome(Shown) = "Win"

\* C18: History[i] holds exactly i marks, ceil(i/2) of them X and floor(i/2)
\* O; hence len(History) <= 10 and CurrentIndex <= 9, and a Draw board has
\* five X and four O.
C18_MarkCount ==
  /\ \A n \in 1 .. Len(history) :
       LET i == n - 1
       IN  /\ CountOf(history[n], "X") = (i + 1) \div 2
           /\ CountOf(history[n], "O") = i \div 2
           /\ CountOf(history[n], Null) = 9 - i
  /\ Len(history) <= 10
  /\ stepNumber <= 9
  /\ \A n \in 1 .. Len(history) :
       RefOutcome(history[n]) = "Draw" =>
         CountOf(history[n], "X") = 5 /\ CountOf(history[n], "O") = 4

\* C18 witness: a drawn game of nine moves is shown at its last index.
C18_Witness ==
  /\ stepNumber = 9
  /\ draw
  /\ RefOutcome(Shown) = "Draw"

\* C19: no History entry has a satisfied line of X together with a
\* satisfied line of O, and the winner reported for the shown board is the
\* owner of every satisfied line.
C19_NoDoubleWinner ==
  /\ \A n \in 1 .. Len(history) :
       ~(RefWins(history[n], "X") /\ RefWins(history[n], "O"))
  /\ \A m \in RefSatisfied(Shown) : Shown[RefOrder[m][1]] = winnerObj.winner

\* C19 witness: O has just won with an accepted move.
C19_Witness ==
  /\ lastOp.op = "handleClick"
  /\ lastOp.ok
  /\ RefWins(Shown, "O")
  /\ winnerObj.winner = "O"

\* C20: once only clicks are issued, with accepted moves weakly fair, the
\* shown board becomes decided; CurrentIndex never passes 9 and the board
\* at index 9 is decided, so at most 9 - CurrentIndex moves are accepted on
\* the way; a decided board stays decided and every click on it is
\* rejected.
C20_EveryGameEnds ==
  /\ (lastOp.op = "playClick") ~> (RefOutcome(Shown) # "Undecided")
  /\ [](stepNumber <= 9 /\ (stepNumber = 9 => RefOutcome(Shown) # "Undecided"))
  /\ []((lastOp.op = "playClick" /\ RefOutcome(Shown) # "Undecided")
          => \A c \in Cells : Core(ClickEvent(Cur, c)) = Core(Cur))
  /\ [][(lastOp.op = "playClick" /\ lastOp'.op = "playClick")
          => /\ stepNumber' \in {stepNumber, stepNumber + 1}
             /\ (RefOutcome(Shown) # "Undecided" => stepNumber' = stepNumber)]_vars

\* C20 witness: a game played on without navigation has ended in a draw and
\* a further click has been rejected.
C20_Witness ==
  /\ lastOp.op = "playClick"
  /\ ~lastOp.ok
  /\ draw

====
